---------------------------- MODULE Spec2Model ----------------------------
(***************************************************************************)
(* Model of ThermoelectricCalculator (src/new_tring.py): the property      *)
(* tables loaded by __init__, the interpolator cache, the temperature      *)
(* solver, the efficiency calculation and the figure of merit; and of the  *)
(* handlers of ThermoelectricApp that call it.                             *)
(*                                                                         *)
(* Numbers.  A float is modelled as an exact rational <<n, d>> in lowest   *)
(* terms with d > 0, extended with the IEEE specials numpy produces        *)
(* instead of raising: <<1, 0>> is +inf, <<-1, 0>> is -inf and <<0, 0>> is *)
(* NaN.  Rounding and the sign of zero are not modelled.                   *)
(*                                                                         *)
(* Arrays are sequences; node i of the code (0-based) is index i + 1.      *)
(***************************************************************************)
EXTENDS Integers, Sequences, FiniteSets, TLC

VARIABLES p_type_data, n_type_data, interpolators, built, call, thr, app

vars == <<p_type_data, n_type_data, interpolators, built, call, thr, app>>

-----------------------------------------------------------------------------
(* Extended rational arithmetic: the float operations of numpy.            *)

RECURSIVE GCD(_, _)
GCD(a, b) == IF b = 0 THEN a ELSE GCD(b, a % b)

IAbs(n) == IF n < 0 THEN -n ELSE n

ISgn(n) == IF n < 0 THEN -1 ELSE IF n = 0 THEN 0 ELSE 1

NaN == <<0, 0>>

PInf == <<1, 0>>

NInf == <<-1, 0>>

\* n / d as a float; d = 0 gives the special of the sign of n.
Q(n, d) ==
  IF d = 0 THEN <<ISgn(n), 0>>
  ELSE LET g == GCD(IAbs(n), IAbs(d))
       IN  IF d < 0 THEN <<-(n \div g), -(d \div g)>> ELSE <<n \div g, d \div g>>

R(n) == <<n, 1>>

IsNaN(a) == a = NaN

IsInf(a) == a = PInf \/ a = NInf

IsFinite(a) == a[2] # 0

RNeg(a) == <<-a[1], a[2]>>

RAdd(a, b) ==
  IF IsFinite(a) /\ IsFinite(b)
  THEN LET g == GCD(a[2], b[2])
       IN  Q(a[1] * (b[2] \div g) + b[1] * (a[2] \div g), (a[2] \div g) * b[2])
  ELSE IF IsNaN(a) \/ IsNaN(b) THEN NaN
  ELSE IF IsFinite(a) THEN b
  ELSE IF IsFinite(b) THEN a
  ELSE IF a = b THEN a ELSE NaN

RSub(a, b) == RAdd(a, RNeg(b))

RMul(a, b) ==
  IF IsFinite(a) /\ IsFinite(b)
  THEN LET g1 == GCD(IAbs(a[1]), b[2])
           g2 == GCD(IAbs(b[1]), a[2])
       IN  <<(a[1] \div g1) * (b[1] \div g2), (a[2] \div g2) * (b[2] \div g1)>>
  ELSE IF IsNaN(a) \/ IsNaN(b) THEN NaN
  ELSE <<ISgn(a[1]) * ISgn(b[1]), 0>>

\* 1 / a: 1 / 0 is +inf, 1 / inf is 0.
RInv(a) ==
  IF IsFinite(a) THEN (IF a[1] < 0 THEN <<-a[2], -a[1]>> ELSE <<a[2], a[1]>>)
  ELSE IF IsNaN(a) THEN NaN
  ELSE R(0)

\* a / b with numpy's result for a zero divisor: x / 0 is inf of the sign
\* of x, 0 / 0 and inf / inf are NaN.  No exception is raised.
RDiv(a, b) ==
  IF IsNaN(a) \/ IsNaN(b) THEN NaN
  ELSE IF IsFinite(b) /\ b[1] = 0 THEN <<ISgn(a[1]), 0>>
  ELSE IF IsInf(a) /\ IsInf(b) THEN NaN
  ELSE RMul(a, RInv(b))

\* Comparisons; every comparison with NaN is false.
RLt(a, b) ==
  /\ ~IsNaN(a)
  /\ ~IsNaN(b)
  /\ IF IsFinite(a) /\ IsFinite(b)
     THEN LET g == GCD(a[2], b[2])
          IN  a[1] * (b[2] \div g) < b[1] * (a[2] \div g)
     ELSE IF IsFinite(a) THEN b = PInf
     ELSE IF IsFinite(b) THEN a = NInf
     ELSE a = NInf /\ b = PInf

RLe(a, b) == ~IsNaN(a) /\ ~IsNaN(b) /\ (a = b \/ RLt(a, b))

RAbs(a) == <<IAbs(a[1]), a[2]>>

\* Python's min and max of two floats.
RMin(a, b) == IF RLt(b, a) THEN b ELSE a

RMax(a, b) == IF RLt(a, b) THEN b ELSE a

\* np.clip(a, lo, hi) = minimum(maximum(a, lo), hi); NaN stays NaN.
Clip(a, lo, hi) ==
  IF IsNaN(a) THEN NaN
  ELSE LET m == IF RLt(a, lo) THEN lo ELSE a
       IN  IF RLt(hi, m) THEN hi ELSE m

\* A numpy array: the function f on 1..n evaluated element by element.
Arr(f) == <<>> \o f

\* np.linspace(a, b, n).
linspace(a, b, n) ==
  IF n = 1 THEN <<a>>
  ELSE Arr([i \in 1..n |-> IF i = n THEN b
                           ELSE RAdd(a, RMul(Q(i - 1, n - 1), RSub(b, a)))])

-----------------------------------------------------------------------------
(* Property tables (__init__) and interpolators (create_interpolators).    *)

\* Python's None where an array is expected.
None == << <<0, -1>> >>

RSq(a) == RMul(a, a)

\* The unit factors of __init__: 1e-6 and 1e-5.
Micro == Q(1, 1000000)

TenMicro == Q(1, 100000)

\* Thermal conductivity of one P-type sample from its measured ZT.
p_thermal_cond(seebeck_i, resistivity_i, temperature_i, zt_i) ==
  IF RLt(R(0), zt_i)
  THEN RDiv(RMul(RSq(seebeck_i), temperature_i), RMul(resistivity_i, zt_i))
  ELSE R(2)

\* One entry of p_type_data from the columns of a P-type file.
load_p(raw) ==
  LET n == Len(raw.temp)
      seebeck == Arr([i \in 1..n |-> RMul(raw.seebeck[i], Micro)])
      resistivity == Arr([i \in 1..n |-> RMul(raw.resistivity[i], Micro)])
  IN  [temp |-> raw.temp,
       seebeck |-> seebeck,
       resistivity |-> resistivity,
       thermal_cond |->
         Arr([i \in 1..n |->
               p_thermal_cond(seebeck[i], resistivity[i], raw.temp[i], raw.zt[i])])]

\* One entry of n_type_data from the columns of an N-type file.
load_n(raw) ==
  LET n == Len(raw.temp)
  IN  [temp |-> raw.temp,
       seebeck |-> Arr([i \in 1..n |-> RMul(RNeg(raw.seebeck[i]), Micro)]),
       resistivity |-> Arr([i \in 1..n |-> RMul(raw.resistivity[i], TenMicro)]),
       thermal_cond |-> raw.thermal_cond]

\* np.argsort(temps): the indices in ascending order of temperature.
argsort(temps) ==
  LET n == Len(temps)
      before(j, i) == RLt(temps[j], temps[i]) \/ (temps[j] = temps[i] /\ j < i)
      rank(i) == 1 + Cardinality({j \in 1..n : before(j, i)})
  IN  Arr([k \in 1..n |-> CHOOSE i \in 1..n : rank(i) = k])

\* a[sort_idx].
take(a, sort_idx) == Arr([k \in 1..Len(sort_idx) |-> a[sort_idx[k]]])

\* interp1d(x, y, kind='linear', bounds_error=False, fill_value=(lo, hi)).
interp1d(x, y, fill_value) == [x |-> x, y |-> y, fill_value |-> fill_value]

\* Evaluation of an interp1d object at x_new.
interp_call(f, x_new) ==
  LET n == Len(f.x)
      idx == Cardinality({j \in 1..n : RLt(f.x[j], x_new)})
      hi == IF idx < 1 THEN 2 ELSE IF idx > n - 1 THEN n ELSE idx + 1
      lo == hi - 1
      slope == RDiv(RSub(f.y[hi], f.y[lo]), RSub(f.x[hi], f.x[lo]))
  IN  IF IsNaN(x_new) THEN NaN
      ELSE IF RLt(x_new, f.x[1]) THEN f.fill_value[1]
      ELSE IF RLt(f.x[n], x_new) THEN f.fill_value[2]
      ELSE RAdd(RMul(slope, RSub(x_new, f.x[lo])), f.y[lo])

\* interp_key = f"{material_type}_{composition}".
interp_key(material_type, composition) == <<material_type, composition>>

\* build_entry without the sort: the rows stay in file order.
build_entry_unsorted(mat_data) ==
  LET n == Len(mat_data.temp)
  IN  [seebeck |-> interp1d(mat_data.temp, mat_data.seebeck,
                            <<mat_data.seebeck[1], mat_data.seebeck[n]>>),
       resistivity |-> interp1d(mat_data.temp, mat_data.resistivity,
                                <<mat_data.resistivity[1], mat_data.resistivity[n]>>),
       thermal_cond |-> interp1d(mat_data.temp, mat_data.thermal_cond,
                                 <<mat_data.thermal_cond[1],
                                   mat_data.thermal_cond[n]>>)]

\* The three interpolators of one table, sorted by temperature first.
build_entry(mat_data) ==
  LET sort_idx == argsort(mat_data.temp)
      temps == take(mat_data.temp, sort_idx)
      seebeck == take(mat_data.seebeck, sort_idx)
      resistivity == take(mat_data.resistivity, sort_idx)
      thermal_cond == take(mat_data.thermal_cond, sort_idx)
      n == Len(temps)
  IN  [seebeck |-> interp1d(temps, seebeck, <<seebeck[1], seebeck[n]>>),
       resistivity |->
         interp1d(temps, resistivity, <<resistivity[1], resistivity[n]>>),
       thermal_cond |->
         interp1d(temps, thermal_cond, <<thermal_cond[1], thermal_cond[n]>>)]

\* create_interpolators that, for a composition without a table of the
\* material type, stores an entry built from the other type's table.
create_interpolators_other_type(self, material_type, composition) ==
  LET data == IF material_type = "p" THEN self.p_type_data ELSE self.n_type_data
      other == IF material_type = "p" THEN self.n_type_data ELSE self.p_type_data
      key == interp_key(material_type, composition)
      found == IF composition \in DOMAIN data THEN data ELSE other
  IN  IF composition \notin DOMAIN found THEN self
      ELSE [self EXCEPT
              !.interpolators =
                 [k \in DOMAIN self.interpolators \cup {key} |->
                    IF k = key THEN build_entry(found[composition])
                    ELSE self.interpolators[k]],
              !.built = [self.built EXCEPT ![key] = @ + 1]]

\* create_interpolators: self with the entry for the key stored, or self
\* unchanged when the composition has no table (the KeyError is swallowed).
\* self.built counts the entries stored per key.
create_interpolators(self, material_type, composition) ==
  LET data == IF material_type = "p" THEN self.p_type_data ELSE self.n_type_data
      key == interp_key(material_type, composition)
  IN  IF composition \notin DOMAIN data THEN self
      ELSE [self EXCEPT
              !.interpolators =
                 [k \in DOMAIN self.interpolators \cup {key} |->
                    IF k = key THEN build_entry(data[composition])
                    ELSE self.interpolators[k]],
              !.built = [self.built EXCEPT ![key] = @ + 1]]

\* ensure_interpolators without the membership test: every call builds.
ensure_interpolators_always(self, material_type, composition) ==
  create_interpolators(self, material_type, composition)

\* "if interp_key not in self.interpolators: self.create_interpolators(...)".
ensure_interpolators(self, material_type, composition) ==
  IF interp_key(material_type, composition) \in DOMAIN self.interpolators
  THEN self
  ELSE create_interpolators(self, material_type, composition)

-----------------------------------------------------------------------------
(* calculate_zt.                                                           *)

\* The value computed from a cached entry: S^2 T / (kappa rho).
zt_value(entry, temperature) ==
  LET seebeck == RAbs(interp_call(entry.seebeck, temperature))
      resistivity == interp_call(entry.resistivity, temperature)
      thermal_cond == interp_call(entry.thermal_cond, temperature)
  IN  RDiv(RMul(RSq(seebeck), temperature), RMul(thermal_cond, resistivity))

\* calculate_zt after the cache test and build:
\* [self |-> the calculator afterwards, ret |-> the value returned,
\*  raised |-> an exception was caught].
zt_rest(self1, material_type, composition, temperature) ==
  LET key == interp_key(material_type, composition)
  IN  IF key \notin DOMAIN self1.interpolators
      THEN [self |-> self1, ret |-> R(0), raised |-> TRUE]
      ELSE [self |-> self1,
            ret |-> zt_value(self1.interpolators[key], temperature),
            raised |-> FALSE]

calculate_zt(self, material_type, composition, temperature) ==
  zt_rest(ensure_interpolators(self, material_type, composition),
          material_type, composition, temperature)

-----------------------------------------------------------------------------
(* calculate_temperature_distribution.                                     *)

\* The clamp of the node temperature before a property lookup.
T_SAFE_MIN == 300

T_SAFE_MAX == 700

\* node_properties that looks the properties up at the node temperatures
\* themselves.
node_properties_unclamped(entry, T, n_points) ==
  LET T_safe == Arr([i \in 1..n_points |-> T[i]])
  IN  [lookups |-> T_safe,
       seebeck |->
         Arr([i \in 1..n_points |-> interp_call(entry.seebeck, T_safe[i])]),
       resistivity |->
         Arr([i \in 1..n_points |-> interp_call(entry.resistivity, T_safe[i])]),
       thermal_cond |->
         Arr([i \in 1..n_points |-> interp_call(entry.thermal_cond, T_safe[i])])]

\* S, rho and kappa at every node of the field T (an entry's interpolators),
\* and the temperatures they were looked up at.
node_properties(entry, T, n_points) ==
  LET T_safe == Arr([i \in 1..n_points |->
                       Clip(T[i], R(T_SAFE_MIN), R(T_SAFE_MAX))])
  IN  [lookups |-> T_safe,
       seebeck |->
         Arr([i \in 1..n_points |-> interp_call(entry.seebeck, T_safe[i])]),
       resistivity |->
         Arr([i \in 1..n_points |-> interp_call(entry.resistivity, T_safe[i])]),
       thermal_cond |->
         Arr([i \in 1..n_points |-> interp_call(entry.thermal_cond, T_safe[i])])]

\* The coefficients c1 .. c5 of the reference algorithm at every node.
coefficients(prop, J, n_points) ==
  [c1 |-> Arr([i \in 1..n_points |->
                 RDiv(RMul(J, prop.seebeck[i]), prop.thermal_cond[i])]),
   c2 |-> Arr([i \in 1..n_points |-> RDiv(R(-1), prop.thermal_cond[i])]),
   c3 |-> Arr([i \in 1..n_points |->
                 RDiv(RMul(RSq(prop.seebeck[i]), RSq(J)), prop.thermal_cond[i])]),
   c4 |-> Arr([i \in 1..n_points |->
                 RDiv(RMul(RNeg(J), prop.seebeck[i]), prop.thermal_cond[i])]),
   c5 |-> Arr([i \in 1..n_points |-> RMul(prop.resistivity[i], RSq(J))])]

\* system_row whose interior right-hand side is taken at the row's own node
\* ("b[i] = c5[i] * dx").
system_row_own_node(c, dx, Th, Tc, n_points, r) ==
  LET one_c1(k) == RSub(R(1), RMul(c.c1[k], dx))
      lower == RDiv(R(1), RMul(c.c2[r], dx))
      diag == RSub(RSub(RDiv(c.c4[r + 1], c.c2[r + 1]),
                        RDiv(R(1), RMul(c.c2[r + 1], dx))),
                   RDiv(one_c1(r), RMul(c.c2[r], dx)))
      upper == RSub(RSub(RDiv(one_c1(r + 1), RMul(c.c2[r + 1], dx)),
                         RMul(c.c3[r + 1], dx)),
                    RDiv(RMul(one_c1(r + 1), c.c4[r + 1]), c.c2[r + 1]))
  IN  IF r = 1
      THEN Arr([j \in 1..(n_points + 1) |->
                  IF j = 1 THEN R(1) ELSE IF j = n_points + 1 THEN Tc ELSE R(0)])
      ELSE IF r = n_points
      THEN Arr([j \in 1..(n_points + 1) |->
                  IF j = n_points THEN R(1)
                  ELSE IF j = n_points + 1 THEN Th ELSE R(0)])
      ELSE Arr([j \in 1..(n_points + 1) |->
                  IF j = r - 1 THEN lower
                  ELSE IF j = r THEN diag
                  ELSE IF j = r + 1 THEN upper
                  ELSE IF j = n_points + 1 THEN RMul(c.c5[r], dx)
                  ELSE R(0)])

\* Row r (1-based) of the matrix A, followed by b[r].
system_row(c, dx, Th, Tc, n_points, r) ==
  LET one_c1(k) == RSub(R(1), RMul(c.c1[k], dx))
      lower == RDiv(R(1), RMul(c.c2[r], dx))
      diag == RSub(RSub(RDiv(c.c4[r + 1], c.c2[r + 1]),
                        RDiv(R(1), RMul(c.c2[r + 1], dx))),
                   RDiv(one_c1(r), RMul(c.c2[r], dx)))
      upper == RSub(RSub(RDiv(one_c1(r + 1), RMul(c.c2[r + 1], dx)),
                         RMul(c.c3[r + 1], dx)),
                    RDiv(RMul(one_c1(r + 1), c.c4[r + 1]), c.c2[r + 1]))
  IN  IF r = 1
      THEN Arr([j \in 1..(n_points + 1) |->
                  IF j = 1 THEN R(1) ELSE IF j = n_points + 1 THEN Tc ELSE R(0)])
      ELSE IF r = n_points
      THEN Arr([j \in 1..(n_points + 1) |->
                  IF j = n_points THEN R(1)
                  ELSE IF j = n_points + 1 THEN Th ELSE R(0)])
      ELSE Arr([j \in 1..(n_points + 1) |->
                  IF j = r - 1 THEN lower
                  ELSE IF j = r THEN diag
                  ELSE IF j = r + 1 THEN upper
                  ELSE IF j = n_points + 1 THEN RMul(c.c5[r - 1], dx)
                  ELSE R(0)])

\* The augmented system [A | b] of one iteration.
assemble(c, dx, Th, Tc, n_points) ==
  Arr([r \in 1..n_points |-> system_row(c, dx, Th, Tc, n_points, r)])

AllFinite(M) == \A r \in 1..Len(M) : \A j \in 1..Len(M[r]) : IsFinite(M[r][j])

\* Elimination on the augmented matrix M from column k on; "singular" when
\* a column has no pivot.
RECURSIVE eliminate(_, _, _)
eliminate(M, k, n) ==
  IF k > n THEN [singular |-> FALSE, M |-> M]
  ELSE LET cand == {p \in k..n : M[p][k] # R(0)}
       IN  IF cand = {} THEN [singular |-> TRUE, M |-> M]
           ELSE LET p == CHOOSE q \in cand : \A q2 \in cand : q <= q2
                    piv == M[p]
                    swapped == [M EXCEPT ![k] = M[p], ![p] = M[k]]
                    reduced ==
                      Arr([i \in 1..n |->
                            IF i = k \/ swapped[i][k] = R(0) THEN swapped[i]
                            ELSE LET m == RDiv(swapped[i][k], piv[k])
                                 IN  Arr([j \in 1..(n + 1) |->
                                           RSub(swapped[i][j], RMul(m, piv[j]))])])
                IN  eliminate(reduced, k + 1, n)

\* The solution read off the eliminated system e.
solution_of(e, n) ==
  IF e.singular THEN [error |-> TRUE, x |-> <<>>]
  ELSE [error |-> FALSE,
        x |-> Arr([i \in 1..n |-> RDiv(e.M[i][n + 1], e.M[i][i])])]

\* np.linalg.solve(A, b).  With a NaN or Inf in the system LAPACK either
\* returns NaN (nan_raises FALSE) or reports a singular matrix.
linalg_solve(M, n, nan_raises) ==
  IF ~AllFinite(M)
  THEN IF nan_raises THEN [error |-> TRUE, x |-> <<>>]
       ELSE [error |-> FALSE, x |-> Arr([i \in 1..n |-> NaN])]
  ELSE solution_of(eliminate(M, 1, n), n)

\* np.max(np.abs(T_new - T)).
RECURSIVE max_abs_change(_, _, _)
max_abs_change(T_new, T, n) ==
  IF n = 1 THEN RAbs(RSub(T_new[1], T[1]))
  ELSE RMax(max_abs_change(T_new, T, n - 1), RAbs(RSub(T_new[n], T[n])))

\* clip_field that cuts at min(Tc, Th) * 0.5 and max(Tc, Th) * 2.
clip_field_wide(T_new, Th, Tc, n_points) ==
  LET lo == RMul(RMin(Tc, Th), Q(1, 2))
      hi == RMul(RMax(Tc, Th), R(2))
  IN  Arr([i \in 1..n_points |-> Clip(T_new[i], lo, hi)])

\* The clip of the new field to the physically reasonable range.
clip_field(T_new, Th, Tc, n_points) ==
  LET lo == RMul(RMin(Tc, Th), Q(19, 20))
      hi == RMul(RMax(Tc, Th), Q(11, 10))
  IN  Arr([i \in 1..n_points |-> Clip(T_new[i], lo, hi)])

\* "np.any(np.isnan(T_new)) or np.any(np.isinf(T_new))".
solution_replaced(sol_x, n_points) ==
  \E i \in 1..n_points : ~IsFinite(sol_x[i])

\* The new field from the solution sol_x: the linear ramp when the solution
\* has a NaN or Inf, then the clip.
accept_solution(sol_x, Th, Tc, n_points) ==
  clip_field(IF solution_replaced(sol_x, n_points)
             THEN linspace(Tc, Th, n_points) ELSE sol_x,
             Th, Tc, n_points)

\* iteration_update with a convergence threshold of 1000 K.
iteration_update_loose(T_new, replaced, max_change) ==
  [T |-> T_new, stop |-> RLt(max_change, R(1000)), exit |-> "converged",
   replaced |-> replaced, max_change |-> max_change]

\* The end of a pass that solved the system: the update of T and the
\* convergence test.
iteration_update(T_new, replaced, max_change) ==
  [T |-> T_new, stop |-> RLt(max_change, Q(1, 100)), exit |-> "converged",
   replaced |-> replaced, max_change |-> max_change]

\* The pass from the result sol of np.linalg.solve on.
iteration_of_solution(sol, T, Th, Tc, n_points) ==
  IF sol.error
  THEN [T |-> linspace(Tc, Th, n_points), stop |-> TRUE,
        exit |-> "singular", replaced |-> FALSE, max_change |-> R(0)]
  ELSE iteration_update(accept_solution(sol.x, Th, Tc, n_points),
                        solution_replaced(sol.x, n_points),
                        max_abs_change(accept_solution(sol.x, Th, Tc, n_points),
                                       T, n_points))

\* One pass of the loop body on the field T: the new field and whether the
\* loop breaks, and why.
iteration(entry, T, Th, Tc, n_points, J, nan_raises) ==
  iteration_of_solution(
    linalg_solve(assemble(coefficients(node_properties(entry, T, n_points),
                                       J, n_points),
                          Q(1, n_points - 1), Th, Tc, n_points),
                 n_points, nan_raises),
    T, Th, Tc, n_points)

\* What a pass it on the field T adds to the record of the iterations.
log_entry(T, it) ==
  [T_before |-> T, T_after |-> it.T, replaced |-> it.replaced,
   error |-> it.exit = "singular", max_change |-> it.max_change]

RECURSIVE iterate(_, _, _, _, _, _, _, _, _, _)

\* The loop after the pass it of iteration iter_count on the field T.
iterate_from(entry, T, Th, Tc, n_points, J, nan_raises, max_iter, iter_count, log, it) ==
  IF it.stop
  THEN [T |-> it.T, exit |-> it.exit, log |-> Append(log, log_entry(T, it))]
  ELSE iterate(entry, it.T, Th, Tc, n_points, J, nan_raises, max_iter,
               iter_count + 1, Append(log, log_entry(T, it)))

\* The loop "for iter_count in range(max_iter)" from iteration iter_count on;
\* log records the iterations executed.
iterate(entry, T, Th, Tc, n_points, J, nan_raises, max_iter, iter_count, log) ==
  IF iter_count >= max_iter
  THEN [T |-> T, exit |-> "cap", log |-> log]
  ELSE iterate_from(entry, T, Th, Tc, n_points, J, nan_raises, max_iter,
                    iter_count, log,
                    iteration(entry, T, Th, Tc, n_points, J, nan_raises))

\* "return x, T" with the outcome run of the loop.
solve_return(self1, x, run) ==
  [self |-> self1, x |-> x, T |-> run.T, exit |-> run.exit, log |-> run.log]

\* solve_rest whose exception fallback returns the ramp from Th to Tc.
solve_rest_swapped(self1, Th, Tc, n_points, material_type, composition, current_density, max_iter, nan_raises) ==
  IF max_iter >= 1
     /\ interp_key(material_type, composition) \notin DOMAIN self1.interpolators
  THEN [self |-> self1, x |-> linspace(R(0), R(1), n_points),
        T |-> linspace(Th, Tc, n_points), exit |-> "exception", log |-> <<>>]
  ELSE solve_return(self1, linspace(R(0), R(1), n_points),
         IF max_iter >= 1
         THEN iterate(self1.interpolators[interp_key(material_type, composition)],
                      linspace(Tc, Th, n_points), Th, Tc, n_points,
                      RMul(current_density, R(100)), nan_raises, max_iter, 0, <<>>)
         ELSE [T |-> linspace(Tc, Th, n_points), exit |-> "cap", log |-> <<>>])

\* calculate_temperature_distribution after the cache test and build, for
\* n_points >= 3:
\* [self |-> the calculator afterwards, x, T |-> the returned arrays,
\*  exit |-> the way the call left, log |-> the iterations executed].
solve_rest(self1, Th, Tc, n_points, material_type, composition, current_density, max_iter, nan_raises) ==
  IF max_iter >= 1
     /\ interp_key(material_type, composition) \notin DOMAIN self1.interpolators
  THEN [self |-> self1, x |-> linspace(R(0), R(1), n_points),
        T |-> linspace(Tc, Th, n_points), exit |-> "exception", log |-> <<>>]
  ELSE solve_return(self1, linspace(R(0), R(1), n_points),
         IF max_iter >= 1
         THEN iterate(self1.interpolators[interp_key(material_type, composition)],
                      linspace(Tc, Th, n_points), Th, Tc, n_points,
                      RMul(current_density, R(100)), nan_raises, max_iter, 0, <<>>)
         ELSE [T |-> linspace(Tc, Th, n_points), exit |-> "cap", log |-> <<>>])

calculate_temperature_distribution(self, Th, Tc, n_points, material_type, composition, current_density, max_iter, nan_raises) ==
  solve_rest(ensure_interpolators(self, material_type, composition), Th, Tc,
             n_points, material_type, composition, current_density, max_iter,
             nan_raises)

-----------------------------------------------------------------------------
(* calculate_efficiency.                                                   *)

\* The node count of the linear field used when no valid field is given.
DEFAULT_POINTS == 20

\* The heat flux q[k] at node k >= 2 (1-based).
heat_flux(c, T, dx, k) ==
  RDiv(RSub(RMul(RSub(RDiv(R(1), dx), c.c1[k]), T[k]), RDiv(T[k - 1], dx)),
       c.c2[k])

\* The two trapezoidal sums over the nodes 2 .. m (1-based).
RECURSIVE cumulative_seebeck(_, _, _)
cumulative_seebeck(seebeck, T, m) ==
  IF m < 2 THEN R(0)
  ELSE RAdd(cumulative_seebeck(seebeck, T, m - 1),
            RMul(RDiv(RAdd(seebeck[m], seebeck[m - 1]), R(2)),
                 RSub(T[m], T[m - 1])))

RECURSIVE cumulative_resistivity(_, _, _)
cumulative_resistivity(resistivity, dx, m) ==
  IF m < 2 THEN R(0)
  ELSE RAdd(cumulative_resistivity(resistivity, dx, m - 1),
            RMul(RDiv(RAdd(resistivity[m], resistivity[m - 1]), R(2)), dx))

\* The efficiency from the raw value: negative values become 0, values
\* above the Carnot efficiency become 90% of it.
limit_efficiency(efficiency, Th, Tc) ==
  LET nonneg == IF RLt(efficiency, R(0)) THEN R(0) ELSE efficiency
      carnot_eff == RMul(RDiv(RSub(Th, Tc), Th), R(100))
  IN  IF RLt(carnot_eff, nonneg) THEN RMul(carnot_eff, Q(9, 10)) ELSE nonneg

\* What the except clause of calculate_efficiency returns.
efficiency_failed(self) ==
  [self |-> self, ret |-> <<R(0), R(0)>>, raised |-> TRUE, checked |-> TRUE,
   q_last |-> R(0), raw |-> R(0), integral_s |-> R(0), integral_r |-> R(0)]

\* efficiency_result without the test of the flux: a flux of 0 is an error.
efficiency_result_unguarded(self, Th, Tc, J, q_last, integral_s, integral_r) ==
  LET power == RMul(J, RAdd(integral_s, RMul(J, integral_r)))
      raw == RMul(RDiv(power, q_last), R(100))
  IN  IF q_last = R(0) \/ Th = R(0)
      THEN [efficiency_failed(self) EXCEPT !.q_last = q_last,
                                           !.integral_s = integral_s,
                                           !.integral_r = integral_r]
      ELSE [self |-> self, ret |-> <<limit_efficiency(raw, Th, Tc), power>>,
            raised |-> FALSE, checked |-> TRUE, q_last |-> q_last, raw |-> raw,
            integral_s |-> integral_s, integral_r |-> integral_r]

\* The efficiency and power from the flux at the last node and the two
\* integrals.
efficiency_result(self, Th, Tc, J, q_last, integral_s, integral_r) ==
  LET power == RMul(J, RAdd(integral_s, RMul(J, integral_r)))
      raw == RMul(RDiv(power, q_last), R(100))
  IN  IF q_last # R(0) /\ Th = R(0)
      THEN [efficiency_failed(self) EXCEPT !.q_last = q_last,
                                           !.integral_s = integral_s,
                                           !.integral_r = integral_r]
      ELSE [self |-> self,
            ret |-> <<IF q_last # R(0) THEN limit_efficiency(raw, Th, Tc)
                      ELSE R(0),
                      power>>,
            raised |-> FALSE, checked |-> TRUE, q_last |-> q_last, raw |-> raw,
            integral_s |-> integral_s, integral_r |-> integral_r]

\* efficiency_of_properties whose integration loop stops one interval early
\* ("for m in range(1, n_points - 1)").
efficiency_of_properties_short_loop(self, Th, Tc, J, T, n_points, dx, prop) ==
  efficiency_result(self, Th, Tc, J,
                    heat_flux(coefficients(prop, J, n_points), T, dx, n_points),
                    cumulative_seebeck(prop.seebeck, T, n_points - 1),
                    cumulative_resistivity(prop.resistivity, dx, n_points - 1))

\* The flux and the integrals from the node properties prop.
efficiency_of_properties(self, Th, Tc, J, T, n_points, dx, prop) ==
  efficiency_result(self, Th, Tc, J,
                    heat_flux(coefficients(prop, J, n_points), T, dx, n_points),
                    cumulative_seebeck(prop.seebeck, T, n_points),
                    cumulative_resistivity(prop.resistivity, dx, n_points))

\* efficiency_body with the solver's conversion of the current density
\* (A/cm^2 times 100) in the place of times 10000.
efficiency_body_solver_units(self, entry, Th, Tc, current_density, x, T) ==
  efficiency_of_properties(self, Th, Tc, RMul(current_density, R(100)), T,
                           Len(x),
                           RDiv(RSub(x[Len(x)], x[1]), R(Len(x) - 1)),
                           node_properties(entry, T, Len(x)))

\* The body of calculate_efficiency once the field x, T is settled.
efficiency_body(self, entry, Th, Tc, current_density, x, T) ==
  efficiency_of_properties(self, Th, Tc, RMul(current_density, R(10000)), T,
                           Len(x),
                           RDiv(RSub(x[Len(x)], x[1]), R(Len(x) - 1)),
                           node_properties(entry, T, Len(x)))

\* calculate_efficiency that clamps the node temperatures in place
\* ("T[i] = np.clip(T[i], 300, 700)"): the caller's arrays afterwards.
arguments_after_efficiency_clip_in_place(x, T) ==
  [x |-> x,
   T |-> IF T = None THEN T
         ELSE Arr([i \in 1..Len(T) |->
                     Clip(T[i], R(T_SAFE_MIN), R(T_SAFE_MAX))])]

\* The arrays the caller passed as x and T, as the caller finds them after
\* calculate_efficiency: lines 455-456 bind the local names x and T to new
\* arrays, np.clip returns a new value, and no statement stores into an
\* element of x or T, on any path.
arguments_after_efficiency(x, T) == [x |-> x, T |-> T]

\* What calculate_efficiency returns for Th <= Tc, before anything else.
efficiency_invalid(self) ==
  [self |-> self, ret |-> <<R(0), R(0)>>, raised |-> FALSE, checked |-> FALSE,
   q_last |-> R(0), raw |-> R(0), integral_s |-> R(0), integral_r |-> R(0)]

\* efficiency_rest that takes a temperature array shorter than the
\* position array for an invalid field and uses the default ramp.
efficiency_rest_short_default(self1, Th, Tc, material_type, composition, current_density, x, T) ==
  LET key == interp_key(material_type, composition)
      invalid == x = None \/ T = None \/ Len(x) < 3 \/ Len(T) < Len(x)
      x1 == IF invalid THEN linspace(R(0), R(1), DEFAULT_POINTS) ELSE x
      T1 == IF invalid THEN linspace(Tc, Th, DEFAULT_POINTS) ELSE T
  IN  IF key \notin DOMAIN self1.interpolators
      THEN efficiency_failed(self1)
      ELSE efficiency_body(self1, self1.interpolators[key], Th, Tc,
                           current_density, x1, T1)

\* efficiency_rest that replaces an invalid field by a ramp of 10 nodes.
efficiency_rest_ten_points(self1, Th, Tc, material_type, composition, current_density, x, T) ==
  LET key == interp_key(material_type, composition)
      invalid == x = None \/ T = None \/ Len(x) < 3
      x1 == IF invalid THEN linspace(R(0), R(1), 10) ELSE x
      T1 == IF invalid THEN linspace(Tc, Th, 10) ELSE T
  IN  IF Len(T1) < Len(x1) \/ key \notin DOMAIN self1.interpolators
      THEN efficiency_failed(self1)
      ELSE efficiency_body(self1, self1.interpolators[key], Th, Tc,
                           current_density, x1, T1)

\* calculate_efficiency after the cache test and build.
efficiency_rest(self1, Th, Tc, material_type, composition, current_density, x, T) ==
  LET key == interp_key(material_type, composition)
      invalid == x = None \/ T = None \/ Len(x) < 3
      x1 == IF invalid THEN linspace(R(0), R(1), DEFAULT_POINTS) ELSE x
      T1 == IF invalid THEN linspace(Tc, Th, DEFAULT_POINTS) ELSE T
  IN  IF Len(T1) < Len(x1) \/ key \notin DOMAIN self1.interpolators
      THEN efficiency_failed(self1)
      ELSE efficiency_body(self1, self1.interpolators[key], Th, Tc,
                           current_density, x1, T1)

\* calculate_efficiency with the cache test and build moved before the
\* Th <= Tc test.
calculate_efficiency_build_first(self, Th, Tc, material_type, composition, current_density, x, T) ==
  LET self1 == ensure_interpolators(self, material_type, composition)
  IN  IF RLe(Th, Tc) THEN efficiency_invalid(self1)
      ELSE efficiency_rest(self1, Th, Tc, material_type, composition,
                           current_density, x, T)

\* calculate_efficiency: [self |-> the calculator afterwards,
\* ret |-> <<efficiency, power>>, raised |-> an exception was caught,
\* checked |-> the call went past the Th <= Tc test].
calculate_efficiency(self, Th, Tc, material_type, composition, current_density, x, T) ==
  IF RLe(Th, Tc) THEN efficiency_invalid(self)
  ELSE efficiency_rest(ensure_interpolators(self, material_type, composition),
                       Th, Tc, material_type, composition, current_density, x, T)

-----------------------------------------------------------------------------
(* The measurement files read by __init__ and the inputs of the calls.     *)

\* Largest node count and largest iteration cap of a solver call.
MaxPoints == 4

MaxIter == 2

Materials == {"p", "n"}

\* One P-type and one N-type composition; a composition of the other type
\* has no table.
PComposition == "0.01"

NComposition == "0.0004"

Compositions == {PComposition, NComposition}

Keys == {interp_key(m, c) : m \in Materials, c \in Compositions}

RSeq(s) == Arr([i \in 1..Len(s) |-> R(s[i])])

\* The ZT column that gives the thermal conductivity kappa for a sample.
zt_for(seebeck_uV, temp, resistivity_u, kappa) ==
  RDiv(RMul(RSq(RMul(R(seebeck_uV), Micro)), R(temp)),
       RMul(RMul(R(resistivity_u), Micro), R(kappa)))

\* P-type file, rows not in temperature order: S and kappa step up
\* between 439 K and 441 K.
PFileA ==
  [temp |-> RSeq(<<441, 300, 700, 439>>),
   seebeck |-> RSeq(<<20000, 10000, 20000, 10000>>),
   resistivity |-> RSeq(<<100, 100, 100, 100>>),
   zt |-> <<zt_for(20000, 441, 100, 2), zt_for(10000, 300, 100, 1),
            zt_for(20000, 700, 100, 2), zt_for(10000, 439, 100, 1)>>]

\* P-type file with a ZT of 0 (439 K) and a Seebeck coefficient of 0 from
\* 441 K on, which makes the derived thermal conductivity 0 there.
PFileB ==
  [temp |-> RSeq(<<300, 439, 441, 700>>),
   seebeck |-> RSeq(<<10000, 10000, 0, 0>>),
   resistivity |-> RSeq(<<100, 100, 100, 100>>),
   zt |-> <<zt_for(10000, 300, 100, 2), R(0), R(1), R(1)>>]

\* N-type file over 200 K .. 800 K, rows not in temperature order.
NFileA ==
  [temp |-> RSeq(<<441, 200, 800, 300, 439, 700>>),
   seebeck |-> RSeq(<<10000, 30000, 30000, 20000, 20000, 10000>>),
   resistivity |-> RSeq(<<20, 10, 20, 10, 10, 20>>),
   thermal_cond |-> RSeq(<<2, 3, 3, 1, 1, 2>>)]

\* N-type file whose resistivity is 0 from 441 K on.
NFileB ==
  [temp |-> RSeq(<<300, 439, 441, 700>>),
   seebeck |-> RSeq(<<10000, 10000, 10000, 10000>>),
   resistivity |-> RSeq(<<10, 10, 0, 0>>),
   thermal_cond |-> RSeq(<<1, 1, 2, 2>>)]

\* The files found at start-up.
Datasets == {[p |-> PFileA, n |-> NFileA], [p |-> PFileB, n |-> NFileB]}

\* Boundary temperatures <<Th, Tc>> of a solver call.
SolvePairs ==
  {<<R(500), R(300)>>, <<R(700), R(400)>>, <<R(300), R(500)>>,
   <<R(500), R(-100)>>}

\* Boundary temperatures <<Th, Tc>> of an efficiency call without a field.
EfficiencyPairs ==
  {<<R(500), R(300)>>, <<R(700), R(300)>>, <<R(300), R(300)>>,
   <<R(300), R(500)>>, <<R(0), R(-100)>>, <<R(-100), R(-200)>>}

\* Current densities of an efficiency call, in A/cm^2.
CurrentDensities == {R(-1), R(0), Q(1, 100), R(1)}

\* Current densities of a solver call.
SolveCurrentDensities == {R(-2), R(-1), R(1)}

ZtTemperatures == {R(250), R(300), R(440), R(500), R(700), R(750)}

\* Field arguments of an efficiency call that does not pass a solver result:
\* none, positions only, two nodes, a three-node ramp, temperatures shorter
\* than the positions, and three nodes with Th / 2 in the middle.
FieldKinds == {"none", "x_only", "two", "ramp", "short", "half"}

field_x(kind) ==
  IF kind = "none" THEN None
  ELSE IF kind = "two" THEN linspace(R(0), R(1), 2)
  ELSE linspace(R(0), R(1), 3)

field_T(kind, Th, Tc) ==
  IF kind \in {"none", "x_only"} THEN None
  ELSE IF kind = "ramp" THEN linspace(Tc, Th, 3)
  ELSE IF kind = "half" THEN <<Tc, RDiv(Th, R(2)), Th>>
  ELSE <<Tc, Th>>

-----------------------------------------------------------------------------
(* ThermoelectricApp: the widgets the handlers read, the fields they       *)
(* store, and the handlers.  A handler is an operator from the calculator  *)
(* and the application before it to both after it.  The canvases are not   *)
(* part of the state: of a plot the model keeps which arguments the        *)
(* calculator was called with, not the curve.                              *)

\* A QLineEdit read with int(): <<n>> holds the text of n, <<>> a text that
\* int() rejects.
IntText(n) == <<n>>

\* Nothing typed into a result field yet.
NoText == <<>>

\* The window after __init__, with a node count, an iteration cap and an
\* area ratio typed in (typing starts no handler); the combo boxes show
\* their first items.  x_p, T_p, x_n, T_n do not exist before the first
\* initialize_calculation: has_fields is FALSE.  solved_for remembers the
\* inputs of the solve that produced the stored fields.
AppInit ==
  [alive |-> TRUE,
   th_edit |-> R(500), tc_edit |-> R(300), grid_edit |-> IntText(3),
   iter_edit |-> MaxIter, p_type_combo |-> PComposition,
   n_type_combo |-> NComposition, p_current_combo |-> R(-2),
   n_current_combo |-> R(25), ratio_edit |-> R(1),
   has_fields |-> FALSE, x_p |-> None, T_p |-> None, x_n |-> None,
   T_n |-> None, solved_for |-> <<>>,
   status_light |-> FALSE, calc_status |-> FALSE,
   max_power |-> NoText, power_current |-> NoText, max_eff |-> NoText,
   eff_current |-> NoText]

\* np.arange(300, 701, 20).
zt_plot_temperatures == Arr([i \in 1..21 |-> R(300 + 20 * (i - 1))])

\* One curve of update_zt_plots: for each temperature the cache test, the
\* build and calculate_zt.  The result is the calculator afterwards.
RECURSIVE zt_curve(_, _, _, _)
zt_curve(self, material_type, composition, i) ==
  IF i > Len(zt_plot_temperatures) THEN self
  ELSE IF interp_key(material_type, composition) \in DOMAIN self.interpolators
  THEN zt_curve(calculate_zt(self, material_type, composition,
                             zt_plot_temperatures[i]).self,
                material_type, composition, i + 1)
  ELSE zt_curve(calculate_zt(create_interpolators(self, material_type,
                                                  composition),
                             material_type, composition,
                             zt_plot_temperatures[i]).self,
                material_type, composition, i + 1)

update_zt_plots(self, a) ==
  zt_curve(zt_curve(self, "p", a.p_type_combo, 1), "n", a.n_type_combo, 1)

\* The inputs the stored fields were solved for.
solve_inputs(a) ==
  [Th |-> a.th_edit, Tc |-> a.tc_edit, n_points |-> a.grid_edit[1],
   p_composition |-> a.p_type_combo, n_composition |-> a.n_type_combo]

\* initialize_calculation from "self.x_p, self.T_p = x_p, T_p" on.
initialize_store(rp, rn, a) ==
  [self |-> rn.self, ok |-> TRUE,
   app |-> [a EXCEPT !.has_fields = TRUE, !.x_p = rp.x, !.T_p = rp.T,
                     !.x_n = rn.x, !.T_n = rn.T,
                     !.solved_for = <<solve_inputs(a)>>,
                     !.status_light = TRUE]]

\* initialize_calculation from the N-type solve on.
initialize_n(rp, a, nan_n) ==
  initialize_store(rp,
    calculate_temperature_distribution(rp.self, a.th_edit, a.tc_edit,
      a.grid_edit[1], "n", a.n_type_combo, a.n_current_combo, a.iter_edit,
      nan_n),
    a)

\* initialize_calculation after update_zt_plots: int() of the node count
\* raises ValueError for a text that is no integer, and the handler ends in
\* its except clause with the stored fields as they were.
initialize_rest(self1, a, nan_p, nan_n) ==
  IF Len(a.grid_edit) = 0
  THEN [self |-> self1, ok |-> FALSE, app |-> [a EXCEPT !.status_light = FALSE]]
  ELSE initialize_n(
         calculate_temperature_distribution(self1, a.th_edit, a.tc_edit,
           a.grid_edit[1], "p", a.p_type_combo, a.p_current_combo,
           a.iter_edit, nan_p),
         a, nan_n)

initialize_calculation(self, a, nan_p, nan_n) ==
  initialize_rest(update_zt_plots(self, [a EXCEPT !.status_light = FALSE]),
                  [a EXCEPT !.status_light = FALSE], nan_p, nan_n)

\* np.linspace(-30, 0, 16) and np.linspace(0, 50, 51).
p_currents == linspace(R(-30), R(0), 16)

n_currents == linspace(R(0), R(50), 51)

\* update_efficiency_plots: reading self.x_p without a stored field raises
\* AttributeError, which the except clause swallows.  Otherwise every call
\* of calculate_efficiency gets the boundary temperatures and compositions
\* read now together with the stored fields (reads); the calls change the
\* calculator only by building a missing cache entry.
update_efficiency_plots(self, a) ==
  IF ~a.has_fields
  THEN [self |-> self, ok |-> FALSE, reads |-> <<>>]
  ELSE [self |-> IF RLe(a.th_edit, a.tc_edit) THEN self
                 ELSE ensure_interpolators(
                        ensure_interpolators(self, "p", a.p_type_combo),
                        "n", a.n_type_combo),
        ok |-> TRUE,
        reads |-> <<[Th |-> a.th_edit, Tc |-> a.tc_edit,
                     p_composition |-> a.p_type_combo,
                     n_composition |-> a.n_type_combo,
                     p_currents |-> Append(p_currents, a.p_current_combo),
                     n_currents |-> Append(n_currents, a.n_current_combo),
                     x_p |-> a.x_p, T_p |-> a.T_p,
                     x_n |-> a.x_n, T_n |-> a.T_n]>>]

\* update_branch_characteristics after update_efficiency_plots returned e.
branch_done(r, e) ==
  [self |-> e.self, app |-> [r.app EXCEPT !.calc_status = TRUE],
   init_ok |-> r.ok, eff_ok |-> e.ok, reads |-> e.reads]

\* update_branch_characteristics after initialize_calculation returned r.
branch_rest(r) == branch_done(r, update_efficiency_plots(r.self, r.app))

update_branch_characteristics(self, a, nan_p, nan_n) ==
  branch_rest(initialize_calculation(self, [a EXCEPT !.calc_status = FALSE],
                                     nan_p, nan_n))

\* The object names of the widgets.  The group boxes are made with a title
\* ("QGroupBox(...)"); setObjectName is never called.
object_names == {}

\* The name calculate_device_performance looks its group box up by: the
\* title of the material efficiency box.
eff_group_name == "material efficiency"

\* np.linspace(0.1, 4, 40).
device_currents == linspace(Q(1, 10), R(4), 40)

\* One pass of the loop of calculate_device_performance for the device
\* current j, from the results of the two branches.
device_point(j, area_ratio, p_ret, n_ret) ==
  LET p_eff == RDiv(p_ret[1], R(100))
      n_eff == RDiv(n_ret[1], R(100))
      p_area == RDiv(R(1), RAdd(R(1), area_ratio))
      n_area == RDiv(area_ratio, RAdd(R(1), area_ratio))
      total_power == RAdd(RMul(p_ret[2], p_area), RMul(n_ret[2], n_area))
  IN  [j |-> j, j_p |-> RNeg(j), j_n |-> RDiv(j, area_ratio),
       p_eff |-> p_eff, n_eff |-> n_eff, p_power |-> p_ret[2],
       n_power |-> n_ret[2], p_area |-> p_area, n_area |-> n_area,
       total_power |-> total_power,
       power |-> RDiv(total_power, R(10000)),
       efficiency |->
         IF RLt(R(0), p_eff) /\ RLt(R(0), n_eff)
         THEN RDiv(RAdd(RMul(p_eff, p_area), RMul(n_eff, n_area)),
                   RAdd(p_area, n_area))
         ELSE R(0)]

\* The pass for j after the P branch returned pe.
device_step_n(pe, a, area_ratio, j) ==
  [p_ret |-> pe.ret,
   ne |-> calculate_efficiency(pe.self, a.th_edit, a.tc_edit, "n",
                               a.n_type_combo, RDiv(j, area_ratio),
                               a.x_n, a.T_n)]

device_step(self, a, area_ratio, j) ==
  device_step_n(calculate_efficiency(self, a.th_edit, a.tc_edit, "p",
                                     a.p_type_combo, RNeg(j), a.x_p, a.T_p),
                a, area_ratio, j)

\* "for j in currents": the calculator afterwards and the passes made.
RECURSIVE device_loop(_, _, _, _, _)

device_next(st, a, area_ratio, i, points) ==
  device_loop(st.ne.self, a, area_ratio, i + 1,
              Append(points, device_point(device_currents[i], area_ratio,
                                          st.p_ret, st.ne.ret)))

device_loop(self, a, area_ratio, i, points) ==
  IF i > Len(device_currents) THEN [self |-> self, points |-> points]
  ELSE device_next(device_step(self, a, area_ratio, device_currents[i]),
                   a, area_ratio, i, points)

\* One step of max(): the item replaces the greatest so far when it is
\* greater under ">".
py_max_step(m, item) == IF RLt(m, item) THEN item ELSE m

\* max() of a list: the first of the greatest elements under ">".
RECURSIVE py_max(_, _)
py_max(s, n) ==
  IF n = 1 THEN s[1] ELSE py_max_step(py_max(s, n - 1), s[n])

\* np.argmax: the first NaN if there is one, else the first maximum.
np_argmax(s) ==
  IF \E i \in 1..Len(s) : IsNaN(s[i])
  THEN CHOOSE i \in 1..Len(s) :
         IsNaN(s[i]) /\ \A k \in 1..(i - 1) : ~IsNaN(s[k])
  ELSE CHOOSE i \in 1..Len(s) :
         /\ \A k \in 1..Len(s) : RLe(s[k], s[i])
         /\ \A k \in 1..(i - 1) : RLt(s[k], s[i])

\* The four result fields from the lists powers and efficiencies.
device_report(a, powers, efficiencies) ==
  [a EXCEPT
     !.max_power = IF RLt(R(0), py_max(powers, Len(powers)))
                   THEN <<powers[np_argmax(powers)]>> ELSE <<R(0)>>,
     !.power_current = IF RLt(R(0), py_max(powers, Len(powers)))
                       THEN <<device_currents[np_argmax(powers)]>>
                       ELSE <<R(0)>>,
     !.max_eff = IF RLt(R(0), py_max(efficiencies, Len(efficiencies)))
                 THEN <<efficiencies[np_argmax(efficiencies)]>> ELSE <<R(0)>>,
     !.eff_current = IF RLt(R(0), py_max(efficiencies, Len(efficiencies)))
                     THEN <<device_currents[np_argmax(efficiencies)]>>
                     ELSE <<R(0)>>,
     !.calc_status = TRUE]

\* calculate_device_performance once the loop has returned run.
device_done(a, run) ==
  [self |-> run.self, completed |-> TRUE, points |-> run.points,
   app |-> device_report(a,
             [i \in 1..Len(run.points) |-> run.points[i].power],
             [i \in 1..Len(run.points) |-> run.points[i].efficiency])]

\* calculate_device_performance.  findChild(QGroupBox, name) finds a child
\* by its object name; no group box has the name looked for, so it returns
\* None and "eff_group.findChild" raises AttributeError before anything is
\* read.  The except clause then uses calc_status, which was never bound,
\* and the UnboundLocalError leaves the handler.
calculate_device_performance(self, a) ==
  IF eff_group_name \notin object_names
  THEN [self |-> self, completed |-> FALSE, points |-> <<>>, app |-> a]
  ELSE IF ~a.has_fields
  THEN [self |-> self, completed |-> FALSE, points |-> <<>>,
        app |-> [a EXCEPT !.calc_status = FALSE]]
  ELSE device_done([a EXCEPT !.calc_status = FALSE],
                   device_loop(self, a, a.ratio_edit, 1, <<>>))

-----------------------------------------------------------------------------
(* The calculator as a state machine: one call at a time.                  *)

Idle == [op |-> "idle"]

\* The calculator object.
Self ==
  [p_type_data |-> p_type_data, n_type_data |-> n_type_data,
   interpolators |-> interpolators, built |-> built]

NoThread == [pc |-> "idle"]

Threads == {1, 2}

Init ==
  /\ \E d \in Datasets :
       /\ p_type_data = [c \in {PComposition} |-> load_p(d.p)]
       /\ n_type_data = [c \in {NComposition} |-> load_n(d.n)]
  /\ interpolators = [k \in {} |-> 0]
  /\ built = [k \in Keys |-> 0]
  /\ call = Idle
  /\ thr = [t \in Threads |-> NoThread]
  /\ app = AppInit

\* What np.linalg.solve may do with a NaN or Inf in the system: return NaN
\* (FALSE) or raise LinAlgError (TRUE).  The system has a NaN or Inf only
\* when some kappa or rho of the table is zero or not finite; for any other
\* table the outcome is never consulted and one value stands for both.
lapack_nan_outcomes(self, material_type, composition) ==
  LET data == IF material_type = "p" THEN self.p_type_data ELSE self.n_type_data
      positive(a) == \A i \in 1..Len(a) : IsFinite(a[i]) /\ RLt(R(0), a[i])
  IN  IF composition \in DOMAIN data
         /\ ~(positive(data[composition].thermal_cond)
              /\ positive(data[composition].resistivity))
      THEN BOOLEAN
      ELSE {FALSE}

\* The state after a solver call that produced r.
solve_done(pair, n_points, k, current_density, max_iter, nan_raises, r) ==
  /\ interpolators' = r.self.interpolators
  /\ built' = r.self.built
  /\ call' = [op |-> "solve", Th |-> pair[1], Tc |-> pair[2],
              n_points |-> n_points, material_type |-> k[1],
              composition |-> k[2], current_density |-> current_density,
              max_iter |-> max_iter, nan_raises |-> nan_raises,
              cached |-> k \in DOMAIN interpolators,
              x |-> r.x, T |-> r.T, exit |-> r.exit, log |-> r.log]

\* A call of calculate_temperature_distribution.
Solve ==
  /\ call = Idle
  /\ \E pair \in SolvePairs, n_points \in 3..MaxPoints, k \in Keys,
        current_density \in SolveCurrentDensities, max_iter \in 0..MaxIter :
     \E nan_raises \in lapack_nan_outcomes(Self, k[1], k[2]) :
       solve_done(pair, n_points, k, current_density, max_iter, nan_raises,
                  calculate_temperature_distribution(Self, pair[1], pair[2],
                    n_points, k[1], k[2], current_density, max_iter, nan_raises))
  /\ UNCHANGED <<p_type_data, n_type_data, thr, app>>

\* The cache key of a call record.
call_key_of(c) == interp_key(c.material_type, c.composition)

\* The record of an efficiency call and its result r; cached tells whether
\* the key was in the cache when the call began.
efficiency_call(Th, Tc, k, current_density, x, T, r) ==
  [op |-> "efficiency", Th |-> Th, Tc |-> Tc, material_type |-> k[1],
   composition |-> k[2], current_density |-> current_density, x |-> x,
   T |-> T, cached |-> k \in DOMAIN interpolators, ret |-> r.ret,
   raised |-> r.raised, checked |-> r.checked,
   q_last |-> r.q_last, raw |-> r.raw, integral_s |-> r.integral_s,
   integral_r |-> r.integral_r,
   x_after |-> arguments_after_efficiency(x, T).x,
   T_after |-> arguments_after_efficiency(x, T).T]

\* The state after an efficiency call that produced r.
efficiency_done(Th, Tc, k, current_density, x, T, r) ==
  /\ interpolators' = r.self.interpolators
  /\ built' = r.self.built
  /\ call' = efficiency_call(Th, Tc, k, current_density, x, T, r)

\* A call of calculate_efficiency that does not pass a solver result.
Efficiency ==
  /\ call = Idle
  /\ \E pair \in EfficiencyPairs, k \in Keys,
        current_density \in CurrentDensities, kind \in FieldKinds :
       efficiency_done(pair[1], pair[2], k, current_density, field_x(kind),
                       field_T(kind, pair[1], pair[2]),
                       calculate_efficiency(Self, pair[1], pair[2], k[1], k[2],
                                            current_density, field_x(kind),
                                            field_T(kind, pair[1], pair[2])))
  /\ UNCHANGED <<p_type_data, n_type_data, thr, app>>

\* A call of calculate_efficiency on the field the solver just returned,
\* for the same boundary temperatures and material.
EfficiencyOfField ==
  /\ call.op = "solve"
  /\ \E current_density \in CurrentDensities :
       efficiency_done(call.Th, call.Tc, call_key_of(call), current_density,
                       call.x, call.T,
                       calculate_efficiency(Self, call.Th, call.Tc,
                                            call.material_type, call.composition,
                                            current_density, call.x, call.T))
  /\ UNCHANGED <<p_type_data, n_type_data, thr, app>>

\* A call of calculate_zt.
Zt ==
  /\ call = Idle
  /\ \E k \in Keys, temperature \in ZtTemperatures :
       LET r == calculate_zt(Self, k[1], k[2], temperature)
       IN  /\ interpolators' = r.self.interpolators
           /\ built' = r.self.built
           /\ call' = [op |-> "zt", material_type |-> k[1],
                       composition |-> k[2], temperature |-> temperature,
                       cached |-> k \in DOMAIN interpolators,
                       ret |-> r.ret, raised |-> r.raised]
  /\ UNCHANGED <<p_type_data, n_type_data, thr, app>>

\* The caller takes the result; the calculator is ready for the next call.
Return ==
  /\ call # Idle
  /\ call' = Idle
  /\ UNCHANGED <<p_type_data, n_type_data, interpolators, built, thr, app>>

Next == Solve \/ Efficiency \/ EfficiencyOfField \/ Zt \/ Return

Spec == Init /\ [][Next]_vars

-----------------------------------------------------------------------------
(* Calls from two threads at once.  The calculator has no lock: the cache  *)
(* test, the build and the rest of a call are separate steps of a thread,  *)
(* and steps of the other thread may come between them.                    *)

\* The calls a thread makes: <<operation, Th, Tc>>; for calculate_zt the
\* temperature stands in the place of Th.
ThreadCalls ==
  {<<"solve", R(500), R(300)>>, <<"efficiency", R(500), R(300)>>,
   <<"efficiency", R(300), R(500)>>, <<"zt", R(500), R(0)>>}

\* Thread t enters a method.  calculate_efficiency returns at once for
\* Th <= Tc; every other call goes on to the cache test.
t_call(t) ==
  /\ thr[t].pc = "idle"
  /\ \E c \in ThreadCalls, k \in Keys :
       thr' = [thr EXCEPT ![t] =
                 [pc |-> IF c[1] = "efficiency" /\ RLe(c[2], c[3])
                         THEN "done" ELSE "test",
                  op |-> c[1], Th |-> c[2], Tc |-> c[3],
                  material_type |-> k[1], composition |-> k[2],
                  ret |-> IF c[1] = "efficiency" /\ RLe(c[2], c[3])
                          THEN efficiency_invalid(Self).ret ELSE <<>>]]
  /\ UNCHANGED <<p_type_data, n_type_data, interpolators, built, call, app>>

\* "if interp_key not in self.interpolators".
t_test(t) ==
  /\ thr[t].pc = "test"
  /\ thr' = [thr EXCEPT ![t].pc =
               IF interp_key(thr[t].material_type, thr[t].composition)
                    \in DOMAIN interpolators
               THEN "use" ELSE "create"]
  /\ UNCHANGED <<p_type_data, n_type_data, interpolators, built, call, app>>

\* "self.create_interpolators(material_type, composition)".
t_create(t) ==
  /\ thr[t].pc = "create"
  /\ LET self1 == create_interpolators(Self, thr[t].material_type,
                                       thr[t].composition)
     IN  /\ interpolators' = self1.interpolators
         /\ built' = self1.built
  /\ thr' = [thr EXCEPT ![t].pc = "use"]
  /\ UNCHANGED <<p_type_data, n_type_data, call, app>>

\* The rest of the method, on the cache as it is now.
t_use(t) ==
  /\ thr[t].pc = "use"
  /\ LET c == thr[t]
         ret == IF c.op = "solve"
                THEN solve_rest(Self, c.Th, c.Tc, 3, c.material_type,
                                c.composition, R(1), 1, FALSE).T
                ELSE IF c.op = "efficiency"
                THEN efficiency_rest(Self, c.Th, c.Tc, c.material_type,
                                     c.composition, R(1),
                                     linspace(R(0), R(1), 3),
                                     linspace(c.Tc, c.Th, 3)).ret
                ELSE <<zt_rest(Self, c.material_type, c.composition, c.Th).ret>>
     IN  thr' = [thr EXCEPT ![t].pc = "done", ![t].ret = ret]
  /\ UNCHANGED <<p_type_data, n_type_data, interpolators, built, call, app>>

\* Thread t returns to its caller.
t_return(t) ==
  /\ thr[t].pc = "done"
  /\ thr' = [thr EXCEPT ![t] = NoThread]
  /\ UNCHANGED <<p_type_data, n_type_data, interpolators, built, call, app>>

NextConc ==
  \E t \in Threads :
    t_call(t) \/ t_test(t) \/ t_create(t) \/ t_use(t) \/ t_return(t)

SpecConc == Init /\ [][NextConc]_vars

-----------------------------------------------------------------------------
(* The window as a state machine: the user types into the fields, picks    *)
(* combo items and presses the buttons; one handler runs at a time.        *)

\* What the user types and picks.
AppThs == {R(500), R(600)}

AppGrids == {IntText(3), IntText(MaxPoints), <<>>}

AppPCurrents == {R(-2), R(-1)}

\* The window takes input: no handler is running and the process lives.
Ready == call = Idle /\ app.alive

\* Typing into th_edit or grid_edit: no signal is connected to these
\* fields, nothing is recomputed.
EditTh ==
  /\ Ready
  /\ \E v \in AppThs \ {app.th_edit} : app' = [app EXCEPT !.th_edit = v]
  /\ UNCHANGED <<p_type_data, n_type_data, interpolators, built, call, thr>>

EditGrid ==
  /\ Ready
  /\ \E v \in AppGrids \ {app.grid_edit} : app' = [app EXCEPT !.grid_edit = v]
  /\ UNCHANGED <<p_type_data, n_type_data, interpolators, built, call, thr>>

\* The state after initialize_calculation returned r.
initialize_returned(r) ==
  /\ interpolators' = r.self.interpolators
  /\ built' = r.self.built
  /\ app' = r.app
  /\ call' = [op |-> "initialize", ok |-> r.ok]

\* init_button.clicked.
InitializeCalculation ==
  /\ Ready
  /\ \E nan_p \in lapack_nan_outcomes(Self, "p", app.p_type_combo),
        nan_n \in lapack_nan_outcomes(Self, "n", app.n_type_combo) :
       initialize_returned(initialize_calculation(Self, app, nan_p, nan_n))
  /\ UNCHANGED <<p_type_data, n_type_data, thr>>

\* The state after update_branch_characteristics returned r, started with
\* the widgets of a.
branch_returned(a, r) ==
  /\ interpolators' = r.self.interpolators
  /\ built' = r.self.built
  /\ app' = r.app
  /\ call' = [op |-> "branch", init_ok |-> r.init_ok, eff_ok |-> r.eff_ok,
              reads |-> r.reads, grid_edit |-> a.grid_edit]

\* calc_button.clicked.
UpdateBranchCharacteristics ==
  /\ Ready
  /\ \E nan_p \in lapack_nan_outcomes(Self, "p", app.p_type_combo),
        nan_n \in lapack_nan_outcomes(Self, "n", app.n_type_combo) :
       branch_returned(app,
         update_branch_characteristics(Self, app, nan_p, nan_n))
  /\ UNCHANGED <<p_type_data, n_type_data, thr>>

\* p_current_combo.currentTextChanged: picking another item runs
\* update_branch_characteristics.
SelectPCurrent ==
  /\ Ready
  /\ \E v \in AppPCurrents \ {app.p_current_combo},
        nan_p \in lapack_nan_outcomes(Self, "p", app.p_type_combo),
        nan_n \in lapack_nan_outcomes(Self, "n", app.n_type_combo) :
       branch_returned([app EXCEPT !.p_current_combo = v],
         update_branch_characteristics(Self,
           [app EXCEPT !.p_current_combo = v], nan_p, nan_n))
  /\ UNCHANGED <<p_type_data, n_type_data, thr>>

\* The state after calculate_device_performance ended as r.
device_returned(r, aborts) ==
  /\ interpolators' = r.self.interpolators
  /\ built' = r.self.built
  /\ app' = [r.app EXCEPT !.alive = r.completed \/ ~aborts]
  /\ call' = [op |-> "device", completed |-> r.completed, points |-> r.points]

\* right_calc_button.clicked.  An exception that leaves a slot makes PyQt5
\* from version 5.5 on call qFatal, which aborts the process; an older
\* PyQt5 prints the traceback and goes on.
CalculateDevicePerformance ==
  /\ Ready
  /\ \E aborts \in BOOLEAN :
       device_returned(calculate_device_performance(Self, app), aborts)
  /\ UNCHANGED <<p_type_data, n_type_data, thr>>

\* The handler has returned to the event loop.
AppReturn ==
  /\ call # Idle
  /\ call' = Idle
  /\ UNCHANGED <<p_type_data, n_type_data, interpolators, built, thr, app>>

NextApp ==
  \/ EditTh \/ EditGrid
  \/ InitializeCalculation \/ UpdateBranchCharacteristics \/ SelectPCurrent
  \/ CalculateDevicePerformance \/ AppReturn

SpecApp == Init /\ [][NextApp]_vars

-----------------------------------------------------------------------------
(* Properties.                                                             *)

\* The cache key of the call in progress.
call_key == call_key_of(call)

\* The tables of a material type.
tables(material_type) ==
  IF material_type = "p" THEN p_type_data ELSE n_type_data

\* The key names a composition that has a property table.
has_table(k) == k[2] \in DOMAIN tables(k[1])

\* C1: every solver call returns x and T of length n_points with
\* T[0] = Tc and T[n_points - 1] = Th, however it exits.
C1_BoundaryPinning ==
  call.op = "solve" =>
    /\ Len(call.x) = call.n_points
    /\ Len(call.T) = call.n_points
    /\ call.T[1] = call.Tc
    /\ call.T[call.n_points] = call.Th

\* 0.9 * (Th - Tc) / Th * 100.
carnot_limit(Th, Tc) == RMul(Q(9, 10), RMul(RDiv(RSub(Th, Tc), Th), R(100)))

\* C2: for Th > Tc the efficiency returned by calculate_efficiency never
\* exceeds 0.9 * (Th - Tc) / Th * 100.
C2_EfficiencyWithinLimit ==
  (call.op = "efficiency" /\ RLt(call.Tc, call.Th)) =>
    ~RLt(carnot_limit(call.Th, call.Tc), call.ret[1])

\* C3: a calculate_efficiency call with Th <= Tc returns (0.0, 0.0) and
\* leaves the interpolator cache as it was: nothing is built.
C3_InvalidBoundaryReturnsZero ==
  [][(call' # call /\ call'.op = "efficiency" /\ RLe(call'.Th, call'.Tc)) =>
       /\ call'.ret = <<R(0), R(0)>>
       /\ interpolators' = interpolators
       /\ built' = built]_vars

\* A call with Th <= Tc for a composition that has a table and was not in
\* the cache has returned.
C3_Witness ==
  /\ call.op = "efficiency"
  /\ RLe(call.Th, call.Tc)
  /\ has_table(call_key)
  /\ ~call.cached
  /\ call.ret = <<R(0), R(0)>>
  /\ call_key \notin DOMAIN interpolators

\* C4: a solver call in which an exception occurs (the composition has no
\* table) returns the uniform positions on [0, 1] and the linear ramp from
\* Tc to Th, both of length n_points.
C4_SolverFallsBackToRamp ==
  (call.op = "solve" /\ (~has_table(call_key) \/ call.exit = "exception")) =>
    /\ Len(call.x) = call.n_points
    /\ Len(call.T) = call.n_points
    /\ call.x = linspace(R(0), R(1), call.n_points)
    /\ call.T = linspace(call.Tc, call.Th, call.n_points)

\* A solver call for a composition without a table has left through the
\* exception handler.
C4_Witness ==
  /\ call.op = "solve"
  /\ ~has_table(call_key)
  /\ call.exit = "exception"
  /\ call.Th # call.Tc

\* The call passed a temperature array shorter than its position array.
short_field ==
  /\ call.x # None
  /\ call.T # None
  /\ Len(call.x) >= 3
  /\ Len(call.T) < Len(call.x)

\* C5: a calculate_efficiency call in which an exception occurs (unknown
\* composition, temperature array shorter than the position array, division
\* by Th = 0) returns exactly (0.0, 0.0).
C5_EfficiencyFailureReturnsZero ==
  (call.op = "efficiency" /\ RLt(call.Tc, call.Th)
     /\ (~has_table(call_key) \/ short_field \/ call.raised)) =>
    /\ call.raised
    /\ call.ret = <<R(0), R(0)>>

\* A call with Th > Tc, a composition that has a table and a temperature
\* array that is too short has returned.
C5_Witness ==
  /\ call.op = "efficiency"
  /\ RLt(call.Tc, call.Th)
  /\ has_table(call_key)
  /\ short_field
  /\ call.raised

\* C6: no element of a returned temperature field is NaN or infinite, and
\* neither is a returned efficiency or power.
C6_ResultsWellFormed ==
  /\ call.op = "solve" => \A i \in 1..Len(call.T) : IsFinite(call.T[i])
  /\ call.op = "efficiency" => IsFinite(call.ret[1]) /\ IsFinite(call.ret[2])

\* The property table behind a key.
table_of(k) == tables(k[1])[k[2]]

\* The rows of a table with the smallest and the largest temperature.
coldest(tab) ==
  CHOOSE i \in 1..Len(tab.temp) :
    \A j \in 1..Len(tab.temp) : RLe(tab.temp[i], tab.temp[j])

hottest(tab) ==
  CHOOSE i \in 1..Len(tab.temp) :
    \A j \in 1..Len(tab.temp) : RLe(tab.temp[j], tab.temp[i])

Properties == {"seebeck", "resistivity", "thermal_cond"}

\* The distance below and above the sampled range at which lookups are tried.
Outside == R(50)

\* S^2 T / (kappa rho) from the property values of row i of a table.
zt_of_row(tab, i, temperature) ==
  RDiv(RMul(RSq(RAbs(tab.seebeck[i])), temperature),
       RMul(tab.thermal_cond[i], tab.resistivity[i]))

\* C7: each interpolator of a cached entry returns, below the smallest and
\* above the largest sampled temperature, the value of the sample with the
\* smallest, respectively largest, temperature, and at those two temperatures
\* the table value itself, whatever the order of the rows in the file; a
\* calculate_zt call outside the sampled range computes from those values.
C7_FlatExtrapolation ==
  /\ \A k \in DOMAIN interpolators :
       LET tab == table_of(k)
           lo == coldest(tab)
           hi == hottest(tab)
       IN  \A prop \in Properties :
             LET f == interpolators[k][prop]
             IN  /\ interp_call(f, RSub(tab.temp[lo], Outside)) = tab[prop][lo]
                 /\ interp_call(f, tab.temp[lo]) = tab[prop][lo]
                 /\ interp_call(f, tab.temp[hi]) = tab[prop][hi]
                 /\ interp_call(f, RAdd(tab.temp[hi], Outside)) = tab[prop][hi]
  /\ (call.op = "zt" /\ has_table(call_key)) =>
       LET tab == table_of(call_key)
           lo == coldest(tab)
           hi == hottest(tab)
       IN  /\ RLt(call.temperature, tab.temp[lo]) =>
                call.ret = zt_of_row(tab, lo, call.temperature)
           /\ RLt(tab.temp[hi], call.temperature) =>
                call.ret = zt_of_row(tab, hi, call.temperature)

\* calculate_zt has looked up a temperature below the sampled range of a
\* table whose first row is neither its coldest nor its hottest.
C7_Witness ==
  /\ call.op = "zt"
  /\ has_table(call_key)
  /\ call_key \in DOMAIN interpolators
  /\ LET tab == table_of(call_key)
     IN  /\ coldest(tab) # 1
         /\ hottest(tab) # 1
         /\ RLt(call.temperature, tab.temp[coldest(tab)])

\* C8: in a sequence of calls an entry is built at most once per key: an
\* entry in the cache is never replaced or removed by a later call, and the
\* number of builds of a key never exceeds one.
C8_BuiltOncePerKey ==
  [][/\ \A k \in DOMAIN interpolators :
          /\ k \in DOMAIN interpolators'
          /\ interpolators'[k] = interpolators[k]
          /\ built'[k] = built[k]
     /\ \A k \in Keys : built'[k] <= 1]_vars

\* A call has returned whose key was in the cache when it began.
C8_Witness ==
  /\ call.op \in {"solve", "zt"}
  /\ call.cached
  /\ call_key \in DOMAIN interpolators
  /\ built[call_key] = 1

\* C9: with two threads calling at once, the entry of a key is built by at
\* most one of them.
C9_ConcurrentBuiltOnce ==
  \A k \in Keys :
    (\A t \in Threads :
       thr[t].pc # "idle" /\ interp_key(thr[t].material_type, thr[t].composition) = k)
      => built[k] <= 1

\* C10: calculate_zt returns a non-negative value for a composition that has
\* a table and a temperature in [300, 700].
C10_ZtNonNegative ==
  (call.op = "zt" /\ has_table(call_key)
     /\ RLe(R(T_SAFE_MIN), call.temperature)
     /\ RLe(call.temperature, R(T_SAFE_MAX))) =>
    RLe(R(0), call.ret)

\* kappa(T) * rho(T) from the cached interpolators of key k.
kappa_rho(k, temperature) ==
  RMul(interp_call(interpolators[k].thermal_cond, temperature),
       interp_call(interpolators[k].resistivity, temperature))

\* C11: calculate_zt returns |S(T)|^2 T / (kappa(T) rho(T)) from the
\* interpolators of the material, and returns 0 on an internal failure: a
\* composition without a table, or kappa(T) rho(T) equal to zero.
C11_ZtValueOrZero ==
  call.op = "zt" =>
    IF ~has_table(call_key) THEN call.ret = R(0)
    ELSE IF kappa_rho(call_key, call.temperature) = R(0) THEN call.ret = R(0)
    ELSE call.ret =
           RDiv(RMul(RSq(RAbs(interp_call(interpolators[call_key].seebeck,
                                          call.temperature))),
                     call.temperature),
                kappa_rho(call_key, call.temperature))

\* The linear ramp from Tc to Th of the solver call in progress.
call_ramp == linspace(call.Tc, call.Th, call.n_points)

\* C16: when the linear solve of an iteration is singular, or its solution
\* has a NaN or Inf, that iteration is the last one executed and the call
\* returns exactly the linear ramp from Tc to Th.
C16_FallbackStopsIteration ==
  call.op = "solve" =>
    \A i \in 1..Len(call.log) :
      (call.log[i].error \/ call.log[i].replaced) =>
        /\ i = Len(call.log)
        /\ call.T = call_ramp

\* C17: for Th > Tc > 0 every node of the field a solver call returns lies
\* in [Tc * 0.95, Th * 1.1], for every current density, node count and
\* iteration cap, and however the call exits.
C17_FieldWithinClipRange ==
  (call.op = "solve" /\ RLt(R(0), call.Tc) /\ RLt(call.Tc, call.Th)) =>
    \A i \in 1..Len(call.T) :
      /\ RLe(RMul(call.Tc, Q(19, 20)), call.T[i])
      /\ RLe(call.T[i], RMul(call.Th, Q(11, 10)))

\* A solver call with Th > Tc > 0 has returned a field in which the clip
\* has cut a node to one of the two bounds.
C17_Witness ==
  /\ call.op = "solve"
  /\ RLt(R(0), call.Tc)
  /\ RLt(call.Tc, call.Th)
  /\ call.exit \in {"cap", "converged"}
  /\ \E i \in 1..Len(call.T) :
       \/ call.T[i] = RMul(call.Tc, Q(19, 20))
       \/ call.T[i] = RMul(call.Th, Q(11, 10))

\* Iteration i of the solver call in progress changed every node by less
\* than 0.01.
small_change(i) ==
  \A k \in 1..call.n_points :
    RLt(RAbs(RSub(call.log[i].T_after[k], call.log[i].T_before[k])), Q(1, 100))

\* C18: a solver call executes at most max_iter linear solves; the first
\* iteration whose clipped new field differs from the previous field by less
\* than 0.01 at every node is the last one; an iteration with a larger change
\* is followed, unless the cap is reached, by an iteration that starts from
\* the updated field.
C18_LoopTermination ==
  call.op = "solve" =>
    /\ Len(call.log) <= call.max_iter
    /\ \A i \in 1..Len(call.log) :
         ~call.log[i].error =>
           IF small_change(i) THEN i = Len(call.log)
           ELSE i < call.max_iter =>
                  /\ i < Len(call.log)
                  /\ call.log[i + 1].T_before = call.log[i].T_after

\* A solver call went on after a first iteration with a change of 0.01 or
\* more and left the loop through the convergence test in its second one.
C18_Witness ==
  /\ call.op = "solve"
  /\ Len(call.log) = 2
  /\ call.exit = "converged"
  /\ ~call.log[1].error
  /\ ~small_change(1)
  /\ ~call.log[2].error
  /\ small_change(2)
  /\ call.T = call.log[2].T_after

\* The call in progress passed no valid field: x missing, T missing, or
\* fewer than 3 positions.
no_valid_field == call.x = None \/ call.T = None \/ Len(call.x) < 3

\* C19: a calculate_efficiency call with Th > Tc and no valid field returns
\* what the same call returns for the 20 positions uniform on [0, 1] with the
\* linear ramp from Tc to Th as temperatures.
C19_DefaultFieldIsRamp ==
  (call.op = "efficiency" /\ RLt(call.Tc, call.Th) /\ no_valid_field) =>
    call.ret = calculate_efficiency(Self, call.Th, call.Tc, call.material_type,
                                    call.composition, call.current_density,
                                    linspace(R(0), R(1), 20),
                                    linspace(call.Tc, call.Th, 20)).ret

\* A call with Th > Tc and only two positions has returned a positive
\* efficiency.
C19_Witness ==
  /\ call.op = "efficiency"
  /\ RLt(call.Tc, call.Th)
  /\ call.x # None
  /\ call.T # None
  /\ Len(call.x) = 2
  /\ ~call.raised
  /\ RLt(R(0), call.ret[1])

\* J * (Seebeck integral + J * resistivity integral) of the efficiency call
\* in progress, with J = 10000 * current_density.
call_power ==
  RMul(RMul(call.current_density, R(10000)),
       RAdd(call.integral_s,
            RMul(RMul(call.current_density, R(10000)), call.integral_r)))

\* C20: when the heat flux at the last node is 0 in a calculate_efficiency
\* call with Th > Tc, no error is raised, the returned efficiency is 0 and
\* the returned power is J * (Seebeck integral + J * resistivity integral).
C20_ZeroFluxGivesZeroEfficiency ==
  (call.op = "efficiency" /\ RLt(call.Tc, call.Th) /\ call.checked
     /\ has_table(call_key) /\ ~short_field /\ call.q_last = R(0)) =>
    /\ ~call.raised
    /\ call.ret[1] = R(0)
    /\ call.ret[2] = call_power

\* A call with Th > Tc and a nonzero current has found a heat flux of 0 at
\* the last node and has returned a nonzero power.
C20_Witness ==
  /\ call.op = "efficiency"
  /\ RLt(call.Tc, call.Th)
  /\ call.checked
  /\ ~call.raised
  /\ call.q_last = R(0)
  /\ call.current_density # R(0)
  /\ call.ret[2] # R(0)

\* The stored fields were solved for the inputs the handler read: the
\* boundary temperatures and compositions of e and, when grid_edit holds a
\* number, that node count.
fields_current(e, grid) ==
  /\ Len(app.solved_for) = 1
  /\ app.solved_for[1].Th = e.Th
  /\ app.solved_for[1].Tc = e.Tc
  /\ app.solved_for[1].p_composition = e.p_composition
  /\ app.solved_for[1].n_composition = e.n_composition
  /\ Len(grid) = 1 => grid[1] = app.solved_for[1].n_points

\* C15: whenever update_efficiency_plots or calculate_device_performance
\* computes from the stored fields, the fields were solved with the boundary
\* temperatures, compositions and node count that are current then.
C15_FieldsNeverStale ==
  /\ (call.op = "branch" /\ call.eff_ok) =>
       fields_current(call.reads[1], call.grid_edit)
  /\ (call.op = "device" /\ call.completed) =>
       fields_current([Th |-> app.th_edit, Tc |-> app.tc_edit,
                       p_composition |-> app.p_type_combo,
                       n_composition |-> app.n_type_combo], app.grid_edit)

reported_maximum(current, i, values) ==
  /\ current = <<device_currents[i]>>
  /\ \A k \in 1..Len(values) : RLe(values[k], values[i])

\* C13: after a press of right_calc_button the reported maximum-power
\* current is a scanned current whose total power is >= that of every
\* scanned current, and the reported maximum-efficiency current is a scanned
\* current whose total efficiency is >= that of every scanned current.
C13_ReportedMaxima ==
  call.op = "device" =>
    /\ call.completed
    /\ \E i \in 1..Len(call.points) :
         reported_maximum(app.power_current, i,
                          [k \in 1..Len(call.points) |-> call.points[k].power])
    /\ \E i \in 1..Len(call.points) :
         reported_maximum(app.eff_current, i,
                          [k \in 1..Len(call.points) |->
                             call.points[k].efficiency])

\* The pass p of the sweep for the device current j and area ratio r.
point_rule(p, j, r) ==
  /\ p.j_p = RNeg(j)
  /\ p.j_n = RDiv(j, r)
  /\ p.p_area = RDiv(R(1), RAdd(R(1), r))
  /\ p.n_area = RDiv(r, RAdd(R(1), r))
  /\ RAdd(p.p_area, p.n_area) = R(1)
  /\ p.total_power = RAdd(RMul(p.p_power, p.p_area), RMul(p.n_power, p.n_area))
  /\ IF RLt(R(0), p.p_eff) /\ RLt(R(0), p.n_eff)
     THEN /\ p.efficiency = RAdd(RMul(p.p_eff, p.p_area),
                                 RMul(p.n_eff, p.n_area))
          /\ \/ RLe(p.p_eff, p.efficiency) /\ RLe(p.efficiency, p.n_eff)
             \/ RLe(p.n_eff, p.efficiency) /\ RLe(p.efficiency, p.p_eff)
     ELSE p.efficiency = R(0)

call_raw == RMul(RDiv(call_power, call.q_last), R(100))

\* (Th - Tc) / Th * 100 of the call in progress.
call_carnot == RMul(RDiv(RSub(call.Th, call.Tc), call.Th), R(100))

\* C21: a calculate_efficiency call with Th > Tc and a nonzero flux at the
\* last node returns 0 when the raw efficiency is negative, 0.9 times the
\* Carnot efficiency when the raw efficiency exceeds the Carnot efficiency,
\* and the raw efficiency otherwise; the returned efficiency is never
\* negative.
C21_EfficiencyClamp ==
  (call.op = "efficiency" /\ RLt(call.Tc, call.Th) /\ call.checked
     /\ has_table(call_key) /\ ~short_field /\ call.q_last # R(0)) =>
    /\ call.ret[1] = IF RLt(call_raw, R(0)) THEN R(0)
                     ELSE IF RLt(call_carnot, call_raw)
                     THEN RMul(Q(9, 10), call_carnot)
                     ELSE call_raw
    /\ ~RLt(call.ret[1], R(0))

\* The field the efficiency call in progress works on: the one passed, or
\* the 20-node ramp when that one is not valid.
call_field_x == IF no_valid_field THEN linspace(R(0), R(1), 20) ELSE call.x

call_field_T ==
  IF no_valid_field THEN linspace(call.Tc, call.Th, 20) ELSE call.T

\* The property of the call's material at the temperature t clamped to
\* [300, 700], read from the cached interpolator.
call_property(name, t) ==
  interp_call(interpolators[call_key][name], Clip(t, R(300), R(700)))

\* The trapezoidal sum of y over the abscissae t[1] .. t[m].
RECURSIVE trapezoid(_, _, _)
trapezoid(y, t, m) ==
  IF m < 2 THEN R(0)
  ELSE RAdd(trapezoid(y, t, m - 1),
            RMul(RDiv(RAdd(y[m], y[m - 1]), R(2)), RSub(t[m], t[m - 1])))

\* J * (Seebeck integral over T + J * resistivity integral over x) with
\* J = 10000 * current_density, from the Seebeck coefficient and the
\* resistivity at the nodes only.
power_from_integrals ==
  LET J == RMul(R(10000), call.current_density)
      n == Len(call_field_x)
      S == [i \in 1..n |-> call_property("seebeck", call_field_T[i])]
      rho == [i \in 1..n |-> call_property("resistivity", call_field_T[i])]
  IN  RMul(J, RAdd(trapezoid(S, call_field_T, n),
                   RMul(J, trapezoid(rho, call_field_x, n))))

call_coefficients(k) ==
  coefficients(node_properties(interpolators[call_key],
                               call.log[k].T_before, call.n_points),
               RMul(call.current_density, R(100)), call.n_points)

call_system(k) ==
  assemble(call_coefficients(k), Q(1, call.n_points - 1), call.Th, call.Tc,
           call.n_points)

\* Row r of M is the unit row of column r with right-hand side rhs.
unit_row(M, n, r, rhs) ==
  /\ \A j \in 1..n : M[r][j] = IF j = r THEN R(1) ELSE R(0)
  /\ M[r][n + 1] = rhs

\* Row r of M is zero outside the columns r - 1, r, r + 1, which lie
\* within 1..n, and has the right-hand side rhs.
band_row(M, n, r, rhs) ==
  /\ {r - 1, r, r + 1} \subseteq 1..n
  /\ \A j \in (1..n) \ {r - 1, r, r + 1} : M[r][j] = R(0)
  /\ M[r][n + 1] = rhs

\* C24: in every iteration of a solver call the system has the unit row
\* with right-hand side Tc as its first row and the unit row with
\* right-hand side Th as its last row, and every interior row i is zero
\* outside the columns i - 1, i, i + 1, which are columns of the matrix, and
\* has the right-hand side c5[i - 1] * dx.
C24_SystemRows ==
  (call.op = "solve" /\ call.exit # "exception") =>
    \A k \in 1..Len(call.log) :
      /\ Len(call_system(k)) = call.n_points
      /\ unit_row(call_system(k), call.n_points, 1, call.Tc)
      /\ unit_row(call_system(k), call.n_points, call.n_points, call.Th)
      /\ \A r \in 2..(call.n_points - 1) :
           band_row(call_system(k), call.n_points, r,
                    RMul(call_coefficients(k).c5[r - 1],
                         Q(1, call.n_points - 1)))

\* A solver call on four or more nodes has executed two iterations, the
\* second on a field on which c5 differs between neighbouring nodes.
C24_Witness ==
  /\ call.op = "solve"
  /\ call.exit # "exception"
  /\ call.n_points >= 4
  /\ Len(call.log) >= 2
  /\ \E r \in 2..(call.n_points - 1) :
       call_coefficients(2).c5[r - 1] # call_coefficients(2).c5[r]

\* The temperature t lies in [300, 700].
in_table_range(t) == RLe(R(300), t) /\ RLe(t, R(700))

\* The temperatures at which the properties are looked up for the first n
\* nodes of the field T by the call in progress.
call_lookups(T, n) == node_properties(interpolators[call_key], T, n).lookups

\* The nodes of the efficiency call in progress that have a temperature.
call_nodes ==
  IF Len(call_field_T) < Len(call_field_x) THEN Len(call_field_T)
  ELSE Len(call_field_x)

\* C25: every property lookup of a solver call, in every iteration and at
\* every node, and every property lookup of a calculate_efficiency call is
\* made at a temperature in [300, 700].
C25_LookupsClamped ==
  /\ (call.op = "solve" /\ call.exit # "exception") =>
       \A k \in 1..Len(call.log) : \A i \in 1..call.n_points :
         in_table_range(call_lookups(call.log[k].T_before, call.n_points)[i])
  /\ (call.op = "efficiency" /\ call.checked /\ has_table(call_key)) =>
       \A i \in 1..call_nodes :
         in_table_range(call_lookups(call_field_T, call_nodes)[i])

\* A solver call has started its second iteration on a field with a node
\* below 300 K or above 700 K.
C25_Witness ==
  /\ call.op = "solve"
  /\ call.exit # "exception"
  /\ Len(call.log) >= 2
  /\ \E i \in 1..call.n_points :
       ~in_table_range(call.log[2].T_before[i])

\* The table of PComposition was loaded from the P-type file raw.
loaded_from(raw) == p_type_data[PComposition] = load_p(raw)

\* The thermal conductivity the claim gives sample i of the file raw:
\* S^2 * T / (rho * ZT) for a measured ZT > 0, else 2.0.
derived_kappa(raw, i) ==
  IF RLt(R(0), raw.zt[i])
  THEN RDiv(RMul(RSq(RMul(raw.seebeck[i], Micro)), raw.temp[i]),
            RMul(RMul(raw.resistivity[i], Micro), raw.zt[i]))
  ELSE R(2)

\* The call in progress is calculate_zt for the P-type table at the
\* temperature of sample i of raw, whose measured ZT is > 0.
zt_call_at_sample(raw, i) ==
  /\ call.op = "zt"
  /\ call.material_type = "p"
  /\ call.composition = PComposition
  /\ call.temperature = raw.temp[i]
  /\ RLt(R(0), raw.zt[i])

\* C26: the thermal conductivities of a P-type table are as many as its
\* temperatures, each is S^2 * T / (rho * ZT) for a measured ZT > 0 and 2.0
\* otherwise, and calculate_zt at the temperature of a sample with ZT > 0
\* returns the measured ZT.
C26_KappaRoundTrip ==
  \A d \in Datasets :
    loaded_from(d.p) =>
      /\ Len(p_type_data[PComposition].thermal_cond)
           = Len(p_type_data[PComposition].temp)
      /\ \A i \in 1..Len(d.p.temp) :
           /\ p_type_data[PComposition].thermal_cond[i] = derived_kappa(d.p, i)
           /\ zt_call_at_sample(d.p, i) => call.ret = d.p.zt[i]

\* The call in progress went through the cache test of its method.
call_tested_cache ==
  \/ call.op \in {"solve", "zt"}
  \/ call.op = "efficiency" /\ call.checked

\* C27: every key of the interpolator cache maps to the three interpolators
\* seebeck, resistivity and thermal_cond of its table, and a call whose
\* build fails because the composition has no table finds no entry for its
\* key (it attempts the build) and leaves none.
C27_CacheEntriesComplete ==
  /\ \A k \in DOMAIN interpolators :
       /\ has_table(k)
       /\ DOMAIN interpolators[k] = Properties
       /\ interpolators[k] = build_entry(table_of(k))
  /\ (call_tested_cache /\ ~has_table(call_key)) =>
       /\ ~call.cached
       /\ call_key \notin DOMAIN interpolators

\* A call for a composition without a table has ended in its error path
\* while the cache holds the entry of another key.
C27_Witness ==
  /\ call_tested_cache
  /\ ~has_table(call_key)
  /\ DOMAIN interpolators # {}
  /\ \A k \in DOMAIN interpolators : DOMAIN interpolators[k] = Properties

\* The property name has the same value at every node of the field of the
\* efficiency call in progress.
uniform_property(name) ==
  \A i \in 1..Len(call_field_T) :
    call_property(name, call_field_T[i]) = call_property(name, call_field_T[1])

\* The efficiency call in progress has computed its two integrals.
call_integrated ==
  /\ call.op = "efficiency"
  /\ RLt(call.Tc, call.Th)
  /\ call.checked
  /\ has_table(call_key)
  /\ ~short_field

\* C28: when the Seebeck coefficient is the same at every node, the Seebeck
\* integral of calculate_efficiency is S * (T[last] - T[0]) whatever the
\* interior temperatures are; when the resistivity is the same at every
\* node, the resistivity integral is rho * (x[last] - x[0]).
C28_IntegralsTelescope ==
  call_integrated =>
    /\ uniform_property("seebeck") =>
         call.integral_s =
           RMul(call_property("seebeck", call_field_T[1]),
                RSub(call_field_T[Len(call_field_T)], call_field_T[1]))
    /\ uniform_property("resistivity") =>
         call.integral_r =
           RMul(call_property("resistivity", call_field_T[1]),
                RSub(call_field_x[Len(call_field_x)], call_field_x[1]))

\* A call on three nodes whose middle temperature is off the ramp, with the
\* same nonzero Seebeck coefficient and the same resistivity at every node,
\* has computed a nonzero Seebeck integral.
C28_Witness ==
  /\ call_integrated
  /\ Len(call_field_T) = 3
  /\ call_field_T[2] # RDiv(RAdd(call_field_T[1], call_field_T[3]), R(2))
  /\ uniform_property("seebeck")
  /\ uniform_property("resistivity")
  /\ call.integral_s # R(0)

\* C29: a calculate_efficiency call that returns an efficiency > 0 returns
\* a power > 0.
C29_PositiveEfficiencyPositivePower ==
  (call.op = "efficiency" /\ RLt(R(0), call.ret[1])) => RLt(R(0), call.ret[2])

\* C30: after update_branch_characteristics the branch status light
\* (calc_status) is green only if initialize_calculation and
\* update_efficiency_plots both ran without an exception, and it is red
\* when initialize_calculation failed.
C30_BranchStatusLight ==
  call.op = "branch" =>
    /\ app.calc_status => (call.init_ok /\ call.eff_ok)
    /\ ~call.init_ok => ~app.calc_status

=============================================================================
